---- MODULE Spec2Model ----
(***************************************************************************)
(* Model of the OpenAI-compatible provider client of text.pollinations.ai  *)
(* (genericOpenAIClient.js: createOpenAICompatibleClient).                  *)
(*                                                                         *)
(* One client is built from a provider configuration; it is invoked a      *)
(* bounded number of times.  Every action is one synchronous segment of    *)
(* the async client function, i.e. the code that runs between two awaits.  *)
(* JavaScript values are tagged records, so that null, undefined, strings, *)
(* objects and arrays stay distinguishable.                                *)
(***************************************************************************)
EXTENDS Integers, Sequences, FiniteSets, TLC

VARIABLES
    config,      \* the provider configuration the client was built from
    credential,  \* what the accessor authHeaderValue() currently returns
    calls,       \* per invocation slot: the state of the running/last call
    served,      \* number of invocations started so far
    probe,       \* a value under repeated sanitization (SanitizerSpec only)
    feed,        \* one run of the effect of useFeedLoader (FeedSpec only)
    ad           \* one call of findRelevantAffiliate (AdSpec only)

vars == <<config, credential, calls, served, probe, feed, ad>>

(***************************************************************************)
(* Bounds                                                                  *)
(***************************************************************************)
MaxCalls == 2

\* Error events and feed messages delivered to one run of the feed effect.
MaxFeedErrors == 4
MaxFeedMessages == 2

(***************************************************************************)
(* JavaScript values                                                       *)
(***************************************************************************)
Undefined == [t |-> "undefined"]
Null == [t |-> "null"]
Str(s) == [t |-> "string", v |-> s]
Num(s) == [t |-> "number", v |-> s]
Bool(b) == [t |-> "boolean", v |-> IF b THEN "true" ELSE "false"]
Obj(f) == [t |-> "object", v |-> f]
Arr(s) == [t |-> "array", v |-> s]
Opaque(s) == [t |-> "opaque", v |-> s]
ErrorValue(m) == [t |-> "error", v |-> m]
EmptyObject == Obj(<<>>)

\* JavaScript truthiness (used by !x, x || y, x ? a : b and if (x)).
Truthy(x) ==
    CASE x.t = "undefined" -> FALSE
      [] x.t = "null" -> FALSE
      [] x.t = "string" -> x.v # ""
      [] x.t = "boolean" -> x.v = "true"
      [] x.t = "number" -> x.v # "0"
      [] OTHER -> TRUE

IsNullish(x) == x.t \in {"null", "undefined"}

\* o[k]: reading a missing property yields undefined.
Get(o, k) == IF o.t = "object" /\ k \in DOMAIN o.v THEN o.v[k] ELSE Undefined

\* {...o, [k]: x}
Put(o, k, x) == Obj([j \in (DOMAIN o.v) \cup {k} |-> IF j = k THEN x ELSE o.v[j]])

\* delete o[k]
Delete(o, k) == Obj([j \in (DOMAIN o.v) \ {k} |-> o.v[j]])

\* Object.keys(o): own keys, whatever their value.
Keys(o) == DOMAIN o.v

\* String.prototype.toLowerCase on the provider names of the model.
ToLowerCase(s) ==
    CASE s = "Cloudflare" -> "cloudflare"
      [] s = "OpenAI" -> "openai"
      [] OTHER -> s

(***************************************************************************)
(* Completions of a synchronous step: a value, or a thrown error.          *)
(***************************************************************************)
Ok(x) == [threw |-> FALSE, value |-> x]
Throw(m) == [threw |-> TRUE, value |-> ErrorValue(m)]

(***************************************************************************)
(* The provider configuration (createOpenAICompatibleClient(config)).      *)
(***************************************************************************)
ProviderNames == {"Cloudflare", "OpenAI"}

\* The transformRequest hooks of the model: absent, or a hook that writes
\* the field named, or a hook that throws.
Hooks ==
    {"none", "addNullUser", "addUndefinedUser", "rfNullType", "rfEmpty",
     "rfDeepNull", "dropStream", "forceStream", "throws"}

\* The formatResponse hooks of the model: absent, a formatter, one that throws.
Formatters == {"none", "custom", "throws"}

additionalHeaders == Obj([k \in {"X-Client"} |-> Str("pollinations")])

\* The additionalHeaders a configuration can hold: none (the default), a header
\* of its own, or an entry under the name of one of the client's two headers.
AdditionalHeaderValues ==
    { EmptyObject,
      additionalHeaders,
      Obj([k \in {"Authorization"} |-> Str("Bearer other")]),
      Obj([k \in {"Content-Type"} |-> Str("text/plain")]) }

\* The hook of the request and the hook of the response act on different
\* segments of a call, so each is varied with the other one absent; the
\* headers act on the dispatch alone and are varied with both hooks absent.
Configs ==
    { cfg \in [providerName : ProviderNames,
               transformRequest : Hooks,
               formatResponse : Formatters,
               additionalHeaders : AdditionalHeaderValues] :
        /\ cfg.transformRequest = "none" \/ cfg.formatResponse = "none"
        /\ \/ cfg.additionalHeaders = additionalHeaders
           \/ cfg.transformRequest = "none" /\ cfg.formatResponse = "none" }

authHeaderName == "Authorization"

\* modelMapping and systemPrompts are ordered objects: key order is
\* insertion order, and Object.keys(o)[0] is the first entry.
modelMapping ==
    << [key |-> "openai", value |-> "gpt-4o"],
       [key |-> "mistral", value |-> "mistral-large"] >>

systemPrompts ==
    << [key |-> "openai", value |-> "You are a helpful assistant."],
       [key |-> "mistral", value |-> "Tu es un assistant utile."] >>

defaultOptions == Obj([temperature |-> Num("0.7")])

\* endpoint is configured as a function of the resolved model name.
endpoint(modelName) ==
    Str("https://provider.example/v1/" \o
        (IF modelName.t = "string" THEN modelName.v ELSE "undefined"))

\* The values the credential accessor can return.
Credentials == {Str("sk-key"), Str("")}

\* o[k] on an ordered object, k a JavaScript value used as a property key.
OrderedGet(o, k) ==
    IF k.t = "string" /\ \E i \in 1..Len(o) : o[i].key = k.v
    THEN Str(o[CHOOSE i \in 1..Len(o) : o[i].key = k.v].value)
    ELSE Undefined

\* o[Object.keys(o)[0]]
FirstEntry(o) == IF Len(o) = 0 THEN Undefined ELSE Str(o[1].value)

\* a || b
OrElse(a, b) == IF Truthy(a) THEN a ELSE b

(***************************************************************************)
(* Collaborators imported from textGenerationUtils.js.                     *)
(***************************************************************************)
OptionFields ==
    {"model", "temperature", "stream", "seed", "maxTokens", "jsonMode",
     "tools", "tool_choice"}

\* normalizeOptions: every recognized field present; the caller's value wins
\* over the provider default; unrecognized caller fields are dropped.
normalizeOptions(options, defaults) ==
    Obj([f \in OptionFields |->
            IF Get(options, f).t # "undefined"
            THEN Get(options, f)
            ELSE Get(defaults, f)])

Roles == {"system", "user", "assistant", "tool"}

IsChatMessage(m) ==
    /\ m.t = "object"
    /\ Get(m, "role").t = "string"
    /\ Get(m, "role").v \in Roles
    /\ Get(m, "content").t = "string"

\* validateAndNormalizeMessages: the validated sequence, or "Invalid messages".
validateAndNormalizeMessages(messages) ==
    IF /\ messages.t = "array"
       /\ Len(messages.v) > 0
       /\ \A i \in 1..Len(messages.v) : IsChatMessage(messages.v[i])
    THEN Ok(messages)
    ELSE Throw("Invalid messages")

Msg(role, content) == Obj([role |-> Str(role), content |-> content])

HasSystemMessage(messages) ==
    \E i \in 1..Len(messages.v) : Get(messages.v[i], "role") = Str("system")

\* ensureSystemMessage: prepend the default prompt when no system message
\* exists, otherwise leave the sequence unchanged.
ensureSystemMessage(messages, options, defaultPrompt) ==
    IF HasSystemMessage(messages)
    THEN messages
    ELSE Arr(<<Msg("system", defaultPrompt)>> \o messages.v)

\* cleanNullAndUndefined: remove every null/undefined-valued key, recursively
\* through nested objects and through the object elements of arrays.
RECURSIVE cleanNullAndUndefined(_)
cleanNullAndUndefined(x) ==
    CASE x.t = "object" ->
            Obj([k \in {j \in DOMAIN x.v : ~IsNullish(x.v[j])} |->
                    cleanNullAndUndefined(x.v[k])])
      [] x.t = "array" ->
            Arr([i \in 1..Len(x.v) |->
                    IF x.v[i].t = "object"
                    THEN cleanNullAndUndefined(x.v[i])
                    ELSE x.v[i]])
      [] OTHER -> x

\* generateRequestId: unique within the process; n is the invocation number.
generateRequestId(n) == "req" \o ToString(n)

\* createErrorResponse: the Uniform Error Response for an error value.
createErrorResponse(error, providerName) ==
    Obj([error |-> Obj([message |-> Str(error.v),
                        providerName |-> Str(providerName)])])

(***************************************************************************)
(* Request construction (genericOpenAIClient.js lines 55-126).             *)
(***************************************************************************)
\* Variant: the presence check is missing.
CredentialCheckSkipped(providerName, cred) == Ok(cred)

\* if (!authHeaderValue()) throw new Error(`${providerName} API key is not set`)
CredentialCheck(providerName, cred) ==
    IF ~Truthy(cred)
    THEN Throw(providerName \o " API key is not set")
    ELSE Ok(cred)

\* Variant: a key that is not mapped is passed through to the provider.
ResolveModelNamePassesKey(modelKey) ==
    OrElse(OrderedGet(modelMapping, modelKey), modelKey)

\* modelMapping[modelKey] || modelMapping[Object.keys(modelMapping)[0]]
ResolveModelName(modelKey) ==
    OrElse(OrderedGet(modelMapping, modelKey), FirstEntry(modelMapping))

\* Variant: the requested model key is ignored.
DefaultSystemPromptFirstOnly(modelKey) == FirstEntry(systemPrompts)

\* systemPrompts[modelKey] || systemPrompts[Object.keys(systemPrompts)[0]]
DefaultSystemPrompt(modelKey) ==
    OrElse(OrderedGet(systemPrompts, modelKey), FirstEntry(systemPrompts))

\* Variant: response_format is set whatever jsonMode is.
RequestBodyAlwaysJson(modelName, messagesWithSystem, normalizedOptions) ==
    Obj([model |-> modelName,
         messages |-> messagesWithSystem,
         temperature |-> Get(normalizedOptions, "temperature"),
         stream |-> Get(normalizedOptions, "stream"),
         seed |-> Get(normalizedOptions, "seed"),
         max_tokens |-> Get(normalizedOptions, "maxTokens"),
         response_format |-> Obj([type |-> Str("json_object")]),
         tools |-> Get(normalizedOptions, "tools"),
         tool_choice |-> Get(normalizedOptions, "tool_choice")])

\* const requestBody = { model, messages, temperature, stream, ... }
RequestBody(modelName, messagesWithSystem, normalizedOptions) ==
    Obj([model |-> modelName,
         messages |-> messagesWithSystem,
         temperature |-> Get(normalizedOptions, "temperature"),
         stream |-> Get(normalizedOptions, "stream"),
         seed |-> Get(normalizedOptions, "seed"),
         max_tokens |-> Get(normalizedOptions, "maxTokens"),
         response_format |->
            IF Truthy(Get(normalizedOptions, "jsonMode"))
            THEN Obj([type |-> Str("json_object")])
            ELSE Undefined,
         tools |-> Get(normalizedOptions, "tools"),
         tool_choice |-> Get(normalizedOptions, "tool_choice")])

\* The configured transformRequest hook applied to the cleaned body.
ApplyHook(hook, body) ==
    CASE hook = "addNullUser" -> Ok(Put(body, "user", Null))
      [] hook = "addUndefinedUser" -> Ok(Put(body, "user", Undefined))
      [] hook = "rfNullType" ->
            Ok(Put(body, "response_format", Obj([type |-> Null])))
      [] hook = "rfEmpty" -> Ok(Put(body, "response_format", EmptyObject))
      [] hook = "rfDeepNull" ->
            Ok(Put(body, "response_format",
                   Obj([type |-> Str("json_schema"),
                        json_schema |-> Obj([name |-> Str("answer"),
                                             strict |-> Null])])))
      [] hook = "dropStream" -> Ok(Delete(body, "stream"))
      [] hook = "forceStream" -> Ok(Put(body, "stream", Bool(TRUE)))
      [] hook = "throws" -> Throw("transformRequest failed")
      [] OTHER -> Ok(body)

\* transformRequest ? transformRequest(cleanedRequestBody) : cleanedRequestBody
TransformRequest(hook, cleanedRequestBody) ==
    IF hook # "none"
    THEN ApplyHook(hook, cleanedRequestBody)
    ELSE Ok(cleanedRequestBody)

\* Object.keys(o).forEach(key => { if (o[key] === null) delete o[key] })
DeleteNullKeys(o) ==
    Obj([k \in {j \in Keys(o) : o.v[j].t # "null"} |-> o.v[k]])

\* Variant: the emptiness test runs before the nested nulls are deleted.
CloudflareSecondPassEmptyFirst(body) ==
    LET b == DeleteNullKeys(body)
        rf == Get(b, "response_format")
    IN  IF Truthy(rf) /\ rf.t = "object"
        THEN IF Keys(rf) = {}
             THEN Delete(b, "response_format")
             ELSE Put(b, "response_format", DeleteNullKeys(rf))
        ELSE b

\* Variant: an emptied response_format is kept.
CloudflareSecondPassKeepsEmpty(body) ==
    LET b == DeleteNullKeys(body)
        rf == Get(b, "response_format")
    IN  IF Truthy(rf) /\ rf.t = "object"
        THEN Put(b, "response_format", DeleteNullKeys(rf))
        ELSE b

\* The body of the `if (providerName === 'Cloudflare')` block.
CloudflareSecondPass(body) ==
    LET b == DeleteNullKeys(body)
        rf == Get(b, "response_format")
    IN  IF Truthy(rf) /\ rf.t = "object"
        THEN IF Keys(DeleteNullKeys(rf)) = {}
             THEN Delete(b, "response_format")
             ELSE Put(b, "response_format", DeleteNullKeys(rf))
        ELSE b

\* Variant: the provider-specific pass never runs.
SecondaryPassSkipped(providerName, finalRequestBody) == finalRequestBody

\* The provider-specific pass runs for the provider named Cloudflare only.
SecondaryPass(providerName, finalRequestBody) ==
    IF providerName = "Cloudflare"
    THEN CloudflareSecondPass(finalRequestBody)
    ELSE finalRequestBody

\* Variant: transformRequest is applied to the body as built, and the generic
\* sanitization runs on what the hook returns.
RequestConstructionHookFirst(cfg, messages, options) ==
    LET normalizedOptions == normalizeOptions(options, defaultOptions)
        modelKey == Get(normalizedOptions, "model")
        modelName == ResolveModelName(modelKey)
        validated == validateAndNormalizeMessages(messages)
        messagesWithSystem ==
            ensureSystemMessage(validated.value, normalizedOptions,
                                DefaultSystemPrompt(modelKey))
        requestBody ==
            RequestBody(modelName, messagesWithSystem, normalizedOptions)
        transformed == TransformRequest(cfg.transformRequest, requestBody)
        cleaned == cleanNullAndUndefined(transformed.value)
        base == [threw |-> TRUE, value |-> Undefined,
                 normalizedOptions |-> normalizedOptions,
                 modelName |-> modelName,
                 cleanedRequestBody |-> Undefined,
                 transformedRequestBody |-> Undefined,
                 transformInput |-> Undefined,
                 transformCalled |-> FALSE]
    IN  IF validated.threw
        THEN [base EXCEPT !.value = validated.value]
        ELSE IF transformed.threw
        THEN [base EXCEPT !.value = transformed.value,
                          !.transformInput = requestBody,
                          !.transformCalled = TRUE]
        ELSE [base EXCEPT !.threw = FALSE,
                          !.value = SecondaryPass(cfg.providerName, cleaned),
                          !.cleanedRequestBody = cleaned,
                          !.transformedRequestBody = transformed.value,
                          !.transformInput =
                                IF cfg.transformRequest # "none"
                                THEN requestBody
                                ELSE Undefined,
                          !.transformCalled = cfg.transformRequest # "none"]

\* Lines 61-126: from the options to the final request body, or the first
\* error thrown on the way.
RequestConstruction(cfg, messages, options) ==
    LET normalizedOptions == normalizeOptions(options, defaultOptions)
        modelKey == Get(normalizedOptions, "model")
        modelName == ResolveModelName(modelKey)
        validated == validateAndNormalizeMessages(messages)
        messagesWithSystem ==
            ensureSystemMessage(validated.value, normalizedOptions,
                                DefaultSystemPrompt(modelKey))
        cleaned ==
            cleanNullAndUndefined(
                RequestBody(modelName, messagesWithSystem, normalizedOptions))
        transformed == TransformRequest(cfg.transformRequest, cleaned)
        base == [threw |-> TRUE, value |-> Undefined,
                 normalizedOptions |-> normalizedOptions,
                 modelName |-> modelName,
                 cleanedRequestBody |-> Undefined,
                 transformedRequestBody |-> Undefined,
                 transformInput |-> Undefined,
                 transformCalled |-> FALSE]
    IN  IF validated.threw
        THEN [base EXCEPT !.value = validated.value]
        ELSE IF transformed.threw
        THEN [base EXCEPT !.value = transformed.value,
                          !.cleanedRequestBody = cleaned,
                          !.transformInput = cleaned,
                          !.transformCalled = TRUE]
        ELSE [base EXCEPT !.threw = FALSE,
                          !.value = SecondaryPass(cfg.providerName,
                                                  transformed.value),
                          !.cleanedRequestBody = cleaned,
                          !.transformedRequestBody = transformed.value,
                          !.transformInput =
                                IF cfg.transformRequest # "none"
                                THEN cleaned
                                ELSE Undefined,
                          !.transformCalled = cfg.transformRequest # "none"]

(***************************************************************************)
(* Dispatch (lines 137-156).                                               *)
(***************************************************************************)
\* Variant: the client's own two headers are written last.
HeadersOwnLast(extra, cred) ==
    LET own == [k \in {authHeaderName, "Content-Type"} |->
                    IF k = "Content-Type" THEN Str("application/json") ELSE cred]
    IN  Obj([k \in (DOMAIN own) \cup Keys(extra) |->
                IF k \in DOMAIN own
                THEN own[k]
                ELSE extra.v[k]])

\* { [authHeaderName]: authHeaderValue(), "Content-Type": ..., ...additionalHeaders }
\* The spread comes last, so an entry of additionalHeaders (extra) replaces an
\* own header of the same name.
Headers(extra, cred) ==
    LET own == [k \in {authHeaderName, "Content-Type"} |->
                    IF k = "Content-Type" THEN Str("application/json") ELSE cred]
    IN  Obj([k \in (DOMAIN own) \cup Keys(extra) |->
                IF k \in Keys(extra)
                THEN extra.v[k]
                ELSE own[k]])

\* JSON.stringify as the wire document it produces: an undefined-valued key
\* of an object is dropped, an undefined element of an array becomes null,
\* null is written as null.
RECURSIVE JSONStringify(_)
JSONStringify(x) ==
    CASE x.t = "object" ->
            Obj([k \in {j \in DOMAIN x.v : x.v[j].t # "undefined"} |->
                    JSONStringify(x.v[k])])
      [] x.t = "array" ->
            Arr([i \in 1..Len(x.v) |->
                    IF x.v[i].t = "undefined"
                    THEN Null
                    ELSE JSONStringify(x.v[i])])
      [] OTHER -> x

\* fetch(endpointUrl, { method: "POST", headers, body: JSON.stringify(...) })
HttpPost(cfg, modelName, cred, finalRequestBody) ==
    [url |-> endpoint(modelName),
     method |-> "POST",
     headers |-> Headers(cfg.additionalHeaders, cred),
     body |-> JSONStringify(finalRequestBody)]

(***************************************************************************)
(* Upstream responses.                                                     *)
(***************************************************************************)
\* What response.json() yields for a body that is not JSON.
InvalidJson == [t |-> "invalid-json"]

DataBare == Obj([choices |-> Opaque("choices")])

DataFull ==
    Obj([id |-> Str("chatcmpl-7"),
         object |-> Str("chat.completion"),
         usage |-> Opaque("usage"),
         choices |-> Opaque("choices")])

\* A payload whose usage is supplied as null.
DataNullUsage ==
    Obj([id |-> Str("chatcmpl-9"),
         object |-> Str("chat.completion"),
         usage |-> Null,
         choices |-> Opaque("choices")])

Responses ==
    { [ok |-> FALSE, status |-> "500", statusText |-> "Internal Server Error",
       contentType |-> Undefined, text |-> "upstream failure",
       json |-> InvalidJson,
       body |-> Opaque("body-1")],
      [ok |-> TRUE, status |-> "200", statusText |-> "OK",
       contentType |-> Str("text/event-stream"), text |-> "",
       json |-> DataBare,
       body |-> Opaque("body-2")],
      [ok |-> TRUE, status |-> "200", statusText |-> "OK",
       contentType |-> Str("application/json"), text |-> "",
       json |-> DataFull,
       body |-> Opaque("body-3")],
      [ok |-> TRUE, status |-> "200", statusText |-> "OK",
       contentType |-> Str("application/json"), text |-> "",
       json |-> DataNullUsage,
       body |-> Opaque("body-4")],
      [ok |-> TRUE, status |-> "200", statusText |-> "OK",
       contentType |-> Undefined, text |-> "",
       json |-> InvalidJson,
       body |-> Opaque("body-5")] }

NoResponse ==
    [ok |-> FALSE, status |-> "", statusText |-> "", contentType |-> Undefined,
     text |-> "", json |-> Undefined, body |-> Undefined]

(***************************************************************************)
(* The state of one invocation of the client.                              *)
(***************************************************************************)
IdleCall ==
    [pc |-> "idle",
     requestId |-> "",
     messages |-> Undefined,
     options |-> Undefined,
     credAtCheck |-> Undefined,
     credAtHeaders |-> Undefined,
     repeatOfSuccess |-> FALSE,
     normalizedOptions |-> Undefined,
     modelName |-> Undefined,
     cleanedRequestBody |-> Undefined,
     transformedRequestBody |-> Undefined,
     transformInput |-> Undefined,
     finalRequestBody |-> Undefined,
     transformCalled |-> FALSE,
     constructed |-> FALSE,
     posts |-> <<>>,
     response |-> NoResponse,
     reads |-> {},
     formatCalled |-> FALSE,
     backfilled |-> FALSE,
     outcome |-> "pending",
     result |-> Undefined]

\* The async function's promise resolves with x.
Returned(c, x) ==
    [c EXCEPT !.pc = "done", !.outcome = "returned", !.result = x]

\* The async function's promise rejects with e.
Thrown(c, e) ==
    [c EXCEPT !.pc = "done", !.outcome = "thrown", !.result = e]

IsErrorResponse(x) == x.t = "object" /\ Get(x, "error").t # "undefined"

\* Variant: the catch clause reports a fixed message, not the error's own.
OuterCatchGenericMessage(providerName, c, error) ==
    Returned(c, createErrorResponse(ErrorValue("Internal error"), providerName))

\* Variant: the catch clause rethrows.
OuterCatchRethrows(providerName, c, error) == Thrown(c, error)

\* catch (error) { errorLog(...); return createErrorResponse(error, providerName); }
OuterCatch(providerName, c, error) ==
    Returned(c, createErrorResponse(error, providerName))

(***************************************************************************)
(* Response handling (lines 158-259).                                      *)
(***************************************************************************)
\* responseHeaders['content-type']?.includes('text/event-stream')
IsSSE(response) ==
    IF response.contentType.t = "undefined"
    THEN Undefined
    ELSE Bool(response.contentType.v
                \in {"text/event-stream", "text/event-stream; charset=utf-8"})

ApiErrorMessage(providerName, response) ==
    providerName \o " API error: " \o response.status \o " "
        \o response.statusText

\* Variant: the body is read to the end and handed over as text.
StreamingEnvelopeBuffered(providerName, requestId, modelName, response) ==
    Obj([id |-> Str(ToLowerCase(providerName) \o "-" \o requestId),
         object |-> Str("chat.completion.chunk"),
         created |-> Opaque("startTime"),
         model |-> modelName,
         stream |-> Bool(TRUE),
         responseStream |-> Str(response.text),
         providerName |-> Str(providerName),
         isSSE |-> IsSSE(response),
         choices |-> Opaque("delta"),
         error |->
            IF ~response.ok
            THEN Obj([message |-> Str(ApiErrorMessage(providerName, response))])
            ELSE Undefined])

\* The object literal returned at lines 180-191.
StreamingEnvelope(providerName, requestId, modelName, response) ==
    Obj([id |-> Str(ToLowerCase(providerName) \o "-" \o requestId),
         object |-> Str("chat.completion.chunk"),
         created |-> Opaque("startTime"),
         model |-> modelName,
         stream |-> Bool(TRUE),
         responseStream |-> response.body,
         providerName |-> Str(providerName),
         isSSE |-> IsSSE(response),
         choices |-> Opaque("delta"),
         error |->
            IF ~response.ok
            THEN Obj([message |-> Str(ApiErrorMessage(providerName, response))])
            ELSE Undefined])

\* if (!response.ok) { await response.text(); throw new Error(...) }: the
\* throw is inside the try block, so the catch clause receives it.
StreamingPreflightFailure(providerName, c, error) ==
    OuterCatch(providerName, c, error)

\* Variant: the branch is taken on the stream field of the body that was sent.
AfterFetchBranchesOnBody(cfg, c, r) ==
    LET c1 == [c EXCEPT !.response = r]
    IN  IF Truthy(Get(c.posts[1].body, "stream"))
        THEN IF ~r.ok
             THEN [c1 EXCEPT !.pc = "streamErrorText"]
             ELSE Returned(c1,
                    StreamingEnvelope(cfg.providerName, c.requestId,
                                      c.modelName, r))
        ELSE IF ~r.ok
             THEN [c1 EXCEPT !.pc = "errorText"]
             ELSE [c1 EXCEPT !.pc = "parsing"]

\* Variant: a streaming call answered non-2xx returns the envelope, with its
\* error field set, where the code throws.
AfterFetchEnvelopeOnError(cfg, c, r) ==
    LET c1 == [c EXCEPT !.response = r]
    IN  IF Truthy(Get(c.normalizedOptions, "stream"))
        THEN Returned(c1,
                StreamingEnvelope(cfg.providerName, c.requestId,
                                  c.modelName, r))
        ELSE IF ~r.ok
             THEN [c1 EXCEPT !.pc = "errorText"]
             ELSE [c1 EXCEPT !.pc = "parsing"]

\* Variant: a non-2xx response is retried.
AfterFetchRetries(cfg, c, r) ==
    LET c1 == [c EXCEPT !.response = r]
    IN  IF ~r.ok
        THEN [c1 EXCEPT !.posts = Append(@, @[1])]
        ELSE IF Truthy(Get(c.normalizedOptions, "stream"))
        THEN Returned(c1,
                StreamingEnvelope(cfg.providerName, c.requestId,
                                  c.modelName, r))
        ELSE [c1 EXCEPT !.pc = "parsing"]

\* The segment that runs when fetch resolves with response r.
AfterFetch(cfg, c, r) ==
    LET c1 == [c EXCEPT !.response = r]
    IN  IF Truthy(Get(c.normalizedOptions, "stream"))
        THEN IF ~r.ok
             THEN [c1 EXCEPT !.pc = "streamErrorText"]
             ELSE Returned(c1,
                    StreamingEnvelope(cfg.providerName, c.requestId,
                                      c.modelName, r))
        ELSE IF ~r.ok
             THEN [c1 EXCEPT !.pc = "errorText"]
             ELSE [c1 EXCEPT !.pc = "parsing"]

\* Variant: the non-streaming error is thrown, as the streaming one is.
ErrorResponseThrown(providerName, c) ==
    Thrown(c, ErrorValue(ApiErrorMessage(providerName, c.response)))

\* The non-streaming `if (!response.ok)` block once the text is read.
ErrorResponseReturn(providerName, c) ==
    Returned(c,
        createErrorResponse(
            ErrorValue(ApiErrorMessage(providerName, c.response) \o " - "
                        \o c.response.text),
            providerName))

\* The configured formatResponse hook.
FormatResponse(formatter, data, requestId, modelName) ==
    IF formatter = "throws"
    THEN Throw("formatResponse failed")
    ELSE Ok(Obj([choices |-> Get(data, "choices"),
                 formattedBy |-> Str("formatResponse"),
                 model |-> modelName]))

\* Variant: the id is assigned whether or not the payload has one.
DefaultFormatOverwritesId(providerName, requestId, data) ==
    LET d1 == Put(data, "id",
                  Str(ToLowerCase(providerName) \o "-" \o requestId))
        d2 == IF ~Truthy(Get(d1, "object"))
              THEN Put(d1, "object", Str("chat.completion"))
              ELSE d1
    IN  IF ~Truthy(Get(d2, "usage"))
        THEN Put(d2, "usage",
                 Obj([prompt_tokens |-> Num("0"),
                      completion_tokens |-> Num("0"),
                      total_tokens |-> Num("0")]))
        ELSE d2

\* Default response formatting: backfill id, object, usage.
DefaultFormat(providerName, requestId, data) ==
    LET d1 == IF ~Truthy(Get(data, "id"))
              THEN Put(data, "id",
                       Str(ToLowerCase(providerName) \o "-" \o requestId))
              ELSE data
        d2 == IF ~Truthy(Get(d1, "object"))
              THEN Put(d1, "object", Str("chat.completion"))
              ELSE d1
    IN  IF ~Truthy(Get(d2, "usage"))
        THEN Put(d2, "usage",
                 Obj([prompt_tokens |-> Num("0"),
                      completion_tokens |-> Num("0"),
                      total_tokens |-> Num("0")]))
        ELSE d2

\* Variant: the default backfill is applied to the formatter's result too.
AfterJsonBackfillsFormatted(cfg, c) ==
    LET c1 == [c EXCEPT !.reads = @ \cup {"json"}]
        data == c.response.json
        formatted ==
            FormatResponse(cfg.formatResponse, data, c.requestId, c.modelName)
    IN  IF data = InvalidJson
        THEN OuterCatch(cfg.providerName, c1, ErrorValue("Unexpected token"))
        ELSE IF cfg.formatResponse # "none"
        THEN IF formatted.threw
             THEN OuterCatch(cfg.providerName,
                             [c1 EXCEPT !.formatCalled = TRUE],
                             formatted.value)
             ELSE Returned([c1 EXCEPT !.formatCalled = TRUE],
                           DefaultFormat(cfg.providerName, c.requestId,
                                         formatted.value))
        ELSE Returned([c1 EXCEPT !.backfilled = TRUE],
                      DefaultFormat(cfg.providerName, c.requestId, data))

\* The segment that runs when response.json() settles.
AfterJson(cfg, c) ==
    LET c1 == [c EXCEPT !.reads = @ \cup {"json"}]
        data == c.response.json
        formatted ==
            FormatResponse(cfg.formatResponse, data, c.requestId, c.modelName)
    IN  IF data = InvalidJson
        THEN OuterCatch(cfg.providerName, c1, ErrorValue("Unexpected token"))
        ELSE IF cfg.formatResponse # "none"
        THEN IF formatted.threw
             THEN OuterCatch(cfg.providerName,
                             [c1 EXCEPT !.formatCalled = TRUE],
                             formatted.value)
             ELSE Returned([c1 EXCEPT !.formatCalled = TRUE], formatted.value)
        ELSE Returned([c1 EXCEPT !.backfilled = TRUE],
                      DefaultFormat(cfg.providerName, c.requestId, data))

(***************************************************************************)
(* The caller's inputs.                                                    *)
(***************************************************************************)
MessageInputs ==
    { Str("not-an-array"),
      Arr(<<Msg("user", Str("hi"))>>),
      Arr(<<Msg("system", Str("be brief")), Msg("user", Str("hi"))>>),
      Arr(<<Msg("user", Str("hi")), Msg("system", Str("be brief"))>>) }

CallerOptions ==
    { Obj([model |-> m, stream |-> s, jsonMode |-> j, seed |-> Null]) :
        m \in {Str("mistral"), Str("other")},
        s \in {Bool(TRUE), Bool(FALSE)},
        j \in {Bool(TRUE), Undefined} }

\* The invocation slots of the client.
Invocations == {"a"}

(***************************************************************************)
(* Actions: one per synchronous segment of the client function.            *)
(***************************************************************************)
\* Lines 46-156: from the call to the issue of the fetch.  cred is what the
\* accessor returns to the presence check, cred2 what it returns when the
\* headers are built.
InvokeCall(cfg, prev, n, cred, cred2, messages, options) ==
    LET start ==
            [IdleCall EXCEPT
                !.pc = "running",
                !.requestId = generateRequestId(n),
                !.messages = messages,
                !.options = options,
                !.credAtCheck = cred,
                !.repeatOfSuccess =
                    /\ prev.outcome = "returned"
                    /\ ~IsErrorResponse(prev.result)
                    /\ prev.messages = messages
                    /\ prev.options = options]
        check == CredentialCheck(cfg.providerName, cred)
        built == RequestConstruction(cfg, messages, options)
        withBuild ==
            [start EXCEPT
                !.normalizedOptions = built.normalizedOptions,
                !.modelName = built.modelName,
                !.cleanedRequestBody = built.cleanedRequestBody,
                !.transformedRequestBody = built.transformedRequestBody,
                !.transformInput = built.transformInput,
                !.transformCalled = built.transformCalled]
    IN  IF check.threw
        THEN OuterCatch(cfg.providerName, start, check.value)
        ELSE IF built.threw
        THEN OuterCatch(cfg.providerName, withBuild, built.value)
        ELSE [withBuild EXCEPT
                !.pc = "fetching",
                !.constructed = TRUE,
                !.finalRequestBody = built.value,
                !.credAtHeaders = cred2,
                !.posts = Append(@, HttpPost(cfg, built.modelName, cred2,
                                             built.value))]

Invoke(p) ==
    /\ calls[p].pc \in {"idle", "done"}
    /\ served < MaxCalls
    /\ \E messages \in MessageInputs, options \in CallerOptions,
          cred2 \in Credentials :
            calls' = [calls EXCEPT ![p] =
                        InvokeCall(config, calls[p], served + 1, credential,
                                   cred2, messages, options)]
    /\ served' = served + 1
    /\ UNCHANGED <<config, credential, probe, feed, ad>>

\* Variant: requestId and modelName are kept in one place for all invocations,
\* so the code after the await reads those of another invocation in flight.
FetchResolveSharedLocals(p) ==
    /\ calls[p].pc = "fetching"
    /\ \E r \in Responses :
        LET others == {q \in (DOMAIN calls) \ {p} : calls[q].pc # "idle"}
            seen == IF others = {}
                    THEN calls[p]
                    ELSE LET o == calls[CHOOSE q \in others : TRUE]
                         IN  [calls[p] EXCEPT !.requestId = o.requestId,
                                              !.modelName = o.modelName]
        IN  calls' = [calls EXCEPT ![p] = AfterFetch(config, seen, r)]
    /\ UNCHANGED <<config, credential, served, probe, feed, ad>>

\* await fetch(...) resolves with a response.
FetchResolve(p) ==
    /\ calls[p].pc = "fetching"
    /\ \E r \in Responses :
            calls' = [calls EXCEPT ![p] = AfterFetch(config, calls[p], r)]
    /\ UNCHANGED <<config, credential, served, probe, feed, ad>>

\* Variant: the rejection of fetch escapes the client function.
FetchRejectEscapes(p) ==
    /\ calls[p].pc = "fetching"
    /\ calls' = [calls EXCEPT ![p] =
                    Thrown(calls[p], ErrorValue("fetch failed"))]
    /\ UNCHANGED <<config, credential, served, probe, feed, ad>>

\* await fetch(...) rejects: no response was received.
FetchReject(p) ==
    /\ calls[p].pc = "fetching"
    /\ calls' = [calls EXCEPT ![p] =
                    OuterCatch(config.providerName, calls[p],
                               ErrorValue("fetch failed"))]
    /\ UNCHANGED <<config, credential, served, probe, feed, ad>>

\* Streaming, non-2xx: await response.text() settles, then the throw.
StreamErrorText(p) ==
    /\ calls[p].pc = "streamErrorText"
    /\ \E readOk \in BOOLEAN :
        LET c1 == [calls[p] EXCEPT !.reads = @ \cup {"text"}]
            error == IF readOk
                     THEN ErrorValue(ApiErrorMessage(config.providerName,
                                                     c1.response))
                     ELSE ErrorValue("body read failed")
        IN  calls' = [calls EXCEPT ![p] =
                        StreamingPreflightFailure(config.providerName, c1,
                                                  error)]
    /\ UNCHANGED <<config, credential, served, probe, feed, ad>>

\* Non-streaming, non-2xx: await response.text() settles, then the return.
ErrorText(p) ==
    /\ calls[p].pc = "errorText"
    /\ \E readOk \in BOOLEAN :
        LET c1 == [calls[p] EXCEPT !.reads = @ \cup {"text"}]
        IN  calls' = [calls EXCEPT ![p] =
                        IF readOk
                        THEN ErrorResponseReturn(config.providerName, c1)
                        ELSE OuterCatch(config.providerName, c1,
                                        ErrorValue("body read failed"))]
    /\ UNCHANGED <<config, credential, served, probe, feed, ad>>

\* Non-streaming, 2xx: await response.json() settles.
ParseJson(p) ==
    /\ calls[p].pc = "parsing"
    /\ calls' = [calls EXCEPT ![p] = AfterJson(config, calls[p])]
    /\ UNCHANGED <<config, credential, served, probe, feed, ad>>

\* The environment changes what the credential accessor returns.
RotateCredential ==
    /\ \E cred \in Credentials \ {credential} : credential' = cred
    /\ UNCHANGED <<config, calls, served, probe, feed, ad>>

\* No value is under sanitization while the client runs.
NoProbe == [fn |-> "none", n |-> 0, x |-> Undefined, once |-> Undefined,
            twice |-> Undefined]

\* No effect of useFeedLoader has run while the client runs.
NoFeed ==
    [mode |-> "none", started |-> FALSE, cleanedUp |-> FALSE,
     eventSource |-> 0, open |-> {}, created |-> 0, waiting |-> 0,
     errors |-> 0, imagesGenerated |-> 0]

\* No affiliate is being looked up while the client runs.
NoAd == [pc |-> "none"]

Init ==
    /\ config \in Configs
    /\ credential \in Credentials
    /\ calls = [p \in Invocations |-> IdleCall]
    /\ served = 0
    /\ probe = NoProbe
    /\ feed = NoFeed
    /\ ad = NoAd

Next ==
    \/ \E p \in Invocations : Invoke(p)
    \/ \E p \in Invocations : FetchResolve(p)
    \/ \E p \in Invocations : FetchReject(p)
    \/ \E p \in Invocations : StreamErrorText(p)
    \/ \E p \in Invocations : ErrorText(p)
    \/ \E p \in Invocations : ParseJson(p)
    \/ RotateCredential

Spec == Init /\ [][Next]_vars

(***************************************************************************)
(* Second specification: the two sanitization passes as pure functions,    *)
(* applied twice in a row to each value of a bounded set of nested values. *)
(***************************************************************************)
ObjectsOver(keys, vals) ==
    { Obj(f) : f \in UNION { [d -> vals] : d \in SUBSET keys } }

ProbeLeaves == {Null, Undefined, Str("x")}

ProbeInner ==
    ObjectsOver({"type", "json_schema"},
                ProbeLeaves \cup {EmptyObject, Obj([strict |-> Null])})

ProbeValues ==
    ObjectsOver({"response_format", "seed"},
                ProbeLeaves \cup ProbeInner
                    \cup {Arr(<<Null>>), Arr(<<Obj([type |-> Null])>>)})

SanitizerInit ==
    /\ config = [providerName |-> "Cloudflare", transformRequest |-> "none",
                 formatResponse |-> "none",
                 additionalHeaders |-> EmptyObject]
    /\ credential = Str("sk-key")
    /\ calls = [p \in Invocations |-> IdleCall]
    /\ served = 0
    /\ probe \in { [NoProbe EXCEPT !.fn = f, !.x = x] :
                    f \in {"sanitize", "secondaryPass"}, x \in ProbeValues }
    /\ feed = NoFeed
    /\ ad = NoAd

\* cleanNullAndUndefined applied to the value, then to its own result.
Sanitize ==
    /\ probe.fn = "sanitize"
    /\ \/ /\ probe.n = 0
          /\ probe' = [probe EXCEPT !.n = 1,
                                    !.once = cleanNullAndUndefined(probe.x)]
       \/ /\ probe.n = 1
          /\ probe' = [probe EXCEPT !.n = 2,
                                    !.twice = cleanNullAndUndefined(probe.once)]
    /\ UNCHANGED <<config, credential, calls, served, feed, ad>>

\* The Cloudflare pass applied to the body, then to its own result.
SecondPass ==
    /\ probe.fn = "secondaryPass"
    /\ \/ /\ probe.n = 0
          /\ probe' = [probe EXCEPT !.n = 1,
                                    !.once = CloudflareSecondPass(probe.x)]
       \/ /\ probe.n = 1
          /\ probe' = [probe EXCEPT !.n = 2,
                                    !.twice = CloudflareSecondPass(probe.once)]
    /\ UNCHANGED <<config, credential, calls, served, feed, ad>>

SanitizerNext == Sanitize \/ SecondPass

SanitizerSpec == SanitizerInit /\ [][SanitizerNext]_vars

(***************************************************************************)
(* Third specification: two invocations of one client, each made once,     *)
(* interleaved at their awaits (the fetch and the reads of the body).      *)
(***************************************************************************)
ConcurrentInvocations == {"a", "b"}

ConcurrentConfigs ==
    { cfg \in Configs :
        /\ cfg.additionalHeaders = additionalHeaders
        /\ cfg.transformRequest \in {"none", "rfNullType"}
        /\ cfg.formatResponse \in {"none", "custom"} }

ConcurrentMessages ==
    { Arr(<<Msg("user", Str("hi"))>>),
      Arr(<<Msg("system", Str("be brief")), Msg("user", Str("hi"))>>) }

ConcurrentOptions ==
    { Obj([model |-> m, stream |-> s, jsonMode |-> Bool(TRUE), seed |-> Null]) :
        m \in {Str("mistral"), Str("other")},
        s \in {Bool(TRUE), Bool(FALSE)} }

\* An invocation is started in a free slot, while the other slot may be
\* suspended at any of its awaits.
InvokeConcurrent(p) ==
    /\ calls[p].pc = "idle"
    /\ served < MaxCalls
    /\ \E messages \in ConcurrentMessages, options \in ConcurrentOptions :
            calls' = [calls EXCEPT ![p] =
                        InvokeCall(config, IdleCall, served + 1, credential,
                                   credential, messages, options)]
    /\ served' = served + 1
    /\ UNCHANGED <<config, credential, probe, feed, ad>>

ConcurrentInit ==
    /\ config \in ConcurrentConfigs
    /\ credential \in Credentials
    /\ calls = [p \in ConcurrentInvocations |-> IdleCall]
    /\ served = 0
    /\ probe = NoProbe
    /\ feed = NoFeed
    /\ ad = NoAd

ConcurrentNext ==
    \/ \E p \in ConcurrentInvocations : InvokeConcurrent(p)
    \/ \E p \in ConcurrentInvocations : FetchResolve(p)
    \/ \E p \in ConcurrentInvocations : FetchReject(p)
    \/ \E p \in ConcurrentInvocations : StreamErrorText(p)
    \/ \E p \in ConcurrentInvocations : ErrorText(p)
    \/ \E p \in ConcurrentInvocations : ParseJson(p)

ConcurrentSpec == ConcurrentInit /\ [][ConcurrentNext]_vars

(***************************************************************************)
(* Fourth specification: one run of the effect of useFeedLoader            *)
(* (src/unnamed/part_002).  The effect's closure holds the mode it was     *)
(* started with and the variable eventSource; EventSource objects are      *)
(* numbered in the order of their creation, 0 standing for null.           *)
(***************************************************************************)
Modes == {"image", "text"}

\* eventSource = getEventSource(): a new EventSource is created, which opens
\* its connection, and is assigned to the closure's variable.
GetEventSource(f) ==
    [f EXCEPT !.created = @ + 1,
              !.open = @ \cup {f.created + 1},
              !.eventSource = f.created + 1]

\* if (eventSource) { eventSource.close(); }
CloseEventSource(f) ==
    IF f.eventSource # 0
    THEN [f EXCEPT !.open = @ \ {f.eventSource}]
    ELSE f

\* The effect body: if (mode === 'image') eventSource = getEventSource().
EffectStart ==
    /\ ~feed.started
    /\ feed' = LET f == [feed EXCEPT !.started = TRUE]
               IN  IF f.mode = "image" THEN GetEventSource(f) ELSE f
    /\ UNCHANGED <<config, credential, calls, served, probe, ad>>

\* source.onmessage on an open source: setImagesGenerated(no => no + 1).
OnMessage ==
    /\ feed.open # {}
    /\ feed.imagesGenerated < MaxFeedMessages
    /\ feed' = [feed EXCEPT !.imagesGenerated = @ + 1]
    /\ UNCHANGED <<config, credential, calls, served, probe, ad>>

\* source.onerror fires on a source that has not been closed: the handler
\* starts and suspends at its await for one second.  The browser either keeps
\* retrying the connection or gives the source up (readyState CLOSED).
OnError ==
    /\ feed.errors < MaxFeedErrors
    /\ \E source \in feed.open, givenUp \in BOOLEAN :
            feed' = [feed EXCEPT !.errors = @ + 1,
                                 !.waiting = @ + 1,
                                 !.open = IF givenUp THEN @ \ {source} ELSE @]
    /\ UNCHANGED <<config, credential, calls, served, probe, ad>>

\* The delay of one waiting handler is over: close the current eventSource if
\* there is one, then reconnect if the closure's mode is 'image'.
OnErrorResume ==
    /\ feed.waiting > 0
    /\ feed' = LET f == CloseEventSource([feed EXCEPT !.waiting = @ - 1])
               IN  IF f.mode = "image" THEN GetEventSource(f) ELSE f
    /\ UNCHANGED <<config, credential, calls, served, probe, ad>>

\* The cleanup the effect returned: mode changed or component unmounted.
EffectCleanup ==
    /\ feed.started
    /\ ~feed.cleanedUp
    /\ feed' = LET f == [feed EXCEPT !.cleanedUp = TRUE]
               IN  IF f.eventSource # 0
                   THEN [CloseEventSource(f) EXCEPT !.eventSource = 0]
                   ELSE f
    /\ UNCHANGED <<config, credential, calls, served, probe, ad>>

FeedInit ==
    /\ config = [providerName |-> "OpenAI", transformRequest |-> "none",
                 formatResponse |-> "none",
                 additionalHeaders |-> EmptyObject]
    /\ credential = Str("sk-key")
    /\ calls = [p \in Invocations |-> IdleCall]
    /\ served = 0
    /\ probe = NoProbe
    /\ feed \in {[NoFeed EXCEPT !.mode = m] : m \in Modes}
    /\ ad = NoAd

FeedNext ==
    \/ EffectStart
    \/ OnMessage
    \/ OnError
    \/ OnErrorResume
    \/ EffectCleanup

FeedSpec == FeedInit /\ [][FeedNext]_vars

(***************************************************************************)
(* Fifth specification: one call of findRelevantAffiliate                  *)
(* (ads/adLlmMapper.js).  A text is the sequence of its words; the words   *)
(* of the model are listed with what toLowerCase and includes make of them.*)
(***************************************************************************)
\* const kofiShowPercentage = 10 (no answer, or no ID in the answer).
KofiShowPercentageNoId == 10

\* const kofiShowPercentage = 30 (ID not found, or the LLM call failed).
KofiShowPercentageFallback == 30

\* Math.floor(Math.random() * 100): one value below both thresholds, one
\* between them, one above both.
RandomValues == {5, 20, 50}

\* String.prototype.toLowerCase on the words of the model.
LowerCaseWord(w) ==
    CASE w = "NSFW" -> "nsfw"
      [] w = "Essex" -> "essex"
      [] w = "None" -> "none"
      [] OTHER -> w

\* lower.includes(keyword), lower a lower-case word of the model.
WordIncludes(lower, keyword) ==
    \/ lower = keyword
    \/ lower = "essex" /\ keyword = "sex"

\* combinedContent.toLowerCase().includes(keyword): the keywords hold no
\* line break, so the joined text includes one iff one of its lines does.
TextIncludes(lines, keyword) ==
    \E i \in 1..Len(lines) : WordIncludes(LowerCaseWord(lines[i]), keyword)

\* The token is matched by [a-zA-Z0-9]+ as a whole.
IsAlphanumeric(token) == token \notin {"***", ""}

\* response.match(/\b([a-zA-Z0-9]+)\b/): the first alphanumeric run, or null.
ExtractAffiliateId(tokens) ==
    IF \E i \in 1..Len(tokens) : IsAlphanumeric(tokens[i])
    THEN Str(tokens[CHOOSE i \in 1..Len(tokens) :
                        /\ IsAlphanumeric(tokens[i])
                        /\ \A j \in 1..(i - 1) : ~IsAlphanumeric(tokens[j])])
    ELSE Null

Affiliate(id, nsfw) == Obj([id |-> Str(id), nsfw |-> nsfw])

\* The affiliate lists the module can be loaded with (affiliate_prompt.js).
AffiliateLists ==
    { <<Affiliate("kofi", Undefined), Affiliate("books", Bool(FALSE)),
        Affiliate("lovescape", Bool(TRUE))>>,
      <<Affiliate("books", Bool(FALSE)), Affiliate("lovescape", Bool(TRUE))>>,
      <<Affiliate("lovescape", Bool(TRUE))>> }

\* affiliatesData.find(a => a.id === id)
FindAffiliate(affiliatesData, id) ==
    IF \E i \in 1..Len(affiliatesData) : Get(affiliatesData[i], "id") = id
    THEN affiliatesData[CHOOSE i \in 1..Len(affiliatesData) :
            /\ Get(affiliatesData[i], "id") = id
            /\ \A j \in 1..(i - 1) : Get(affiliatesData[j], "id") # id]
    ELSE Undefined

\* affiliatesData.filter(affiliate => !affiliate.nsfw)
WithoutNsfw(affiliatesData) ==
    SelectSeq(affiliatesData, LAMBDA a : ~Truthy(Get(a, "nsfw")))

\* messages.slice(-3).map(m => m.content || "").filter(Boolean)
LastMessages(messages) ==
    LET n == Len(messages)
        last == SubSeq(messages, IF n > 3 THEN n - 2 ELSE 1, n)
        contents == [i \in 1..Len(last) |->
                        IF Truthy(Get(last[i], "content"))
                        THEN Get(last[i], "content").v
                        ELSE ""]
    IN  SelectSeq(contents, LAMBDA w : w # "")

\* [...lastMessages, content].join("\n"), as its lines.
CombinedContent(content, messages) == LastMessages(messages) \o <<content>>

\* !combinedContent || combinedContent.trim() === ""
IsBlank(lines) == \A i \in 1..Len(lines) : lines[i] \in {"", " "}

\* Lines 27-29.
ShouldExcludeNSFW(lines) ==
    /\ ~TextIncludes(lines, "nsfw")
    /\ ~TextIncludes(lines, "adult")
    /\ ~TextIncludes(lines, "sex")

\* if (randomValue < kofiShowPercentage) return kofi || null; else return null
KofiFallback(affiliatesData, randomValue, kofiShowPercentage) ==
    IF randomValue < kofiShowPercentage
    THEN OrElse(FindAffiliate(affiliatesData, Str("kofi")), Null)
    ELSE Null

\* Lines 58-122: from the completion's text to the affiliate returned.
MatchAffiliate(affiliatesData, response, randomValue) ==
    IF \/ response.t = "undefined"
       \/ response.v = <<>>
       \/ Len(response.v) = 1 /\ LowerCaseWord(response.v[1]) = "none"
    THEN KofiFallback(affiliatesData, randomValue, KofiShowPercentageNoId)
    ELSE LET affiliateId == ExtractAffiliateId(response.v)
             matchedAffiliate == FindAffiliate(affiliatesData, affiliateId)
         IN  IF ~Truthy(affiliateId)
             THEN KofiFallback(affiliatesData, randomValue,
                               KofiShowPercentageNoId)
             ELSE IF ~Truthy(matchedAffiliate)
             THEN KofiFallback(affiliatesData, randomValue,
                               KofiShowPercentageFallback)
             ELSE matchedAffiliate

\* The message lists and the contents the function is called with.
AdMessageContents == {Undefined, Str("hello"), Str("NSFW")}

AdMessages ==
    UNION { [1..n -> {Obj([role |-> Str("user"), content |-> c]) :
                        c \in AdMessageContents}] : n \in 0..4 }

AdContents == {"", " ", "hello", "Essex"}

\* completion.choices[0]?.message?.content?.trim(), as its tokens.
CompletionTexts ==
    { Undefined, Arr(<<>>), Arr(<<"None">>), Arr(<<"kofi">>),
      Arr(<<"books">>), Arr(<<"lovescape">>), Arr(<<"ghost">>),
      Arr(<<"***">>), Arr(<<"***", "lovescape">>) }

\* Lines 17-56: from the call to the await of the LLM completion.
FindRelevantAffiliateStart ==
    /\ ad.pc = "called"
    /\ LET combinedContent == CombinedContent(ad.content, ad.messages)
           shouldExcludeNSFW == ShouldExcludeNSFW(combinedContent)
           eligibleAffiliates ==
                IF shouldExcludeNSFW
                THEN WithoutNsfw(ad.affiliatesData)
                ELSE ad.affiliatesData
           a1 == [ad EXCEPT !.combinedContent = combinedContent]
       IN  ad' = IF IsBlank(combinedContent) \/ Len(eligibleAffiliates) = 0
                 THEN [a1 EXCEPT !.pc = "done", !.outcome = "returned",
                                 !.result = Null]
                 ELSE [a1 EXCEPT !.pc = "awaitCompletion"]
    /\ UNCHANGED <<config, credential, calls, served, probe, feed>>

\* await generateTextPortkey(...) resolves with a well-formed completion.
CompletionResolve ==
    /\ ad.pc = "awaitCompletion"
    /\ \E response \in CompletionTexts, randomValue \in RandomValues :
            ad' = [ad EXCEPT !.pc = "done", !.outcome = "returned",
                             !.response = response,
                             !.result = MatchAffiliate(ad.affiliatesData,
                                                       response, randomValue)]
    /\ UNCHANGED <<config, credential, calls, served, probe, feed>>

\* await generateTextPortkey(...) rejects, or the completion has no choices
\* array: the catch clause at lines 123-140.
CompletionFail ==
    /\ ad.pc = "awaitCompletion"
    /\ \E randomValue \in RandomValues :
            ad' = [ad EXCEPT !.pc = "done", !.outcome = "returned",
                             !.failed = TRUE,
                             !.result = KofiFallback(ad.affiliatesData,
                                            randomValue,
                                            KofiShowPercentageFallback)]
    /\ UNCHANGED <<config, credential, calls, served, probe, feed>>

AdInit ==
    /\ config = [providerName |-> "OpenAI", transformRequest |-> "none",
                 formatResponse |-> "none",
                 additionalHeaders |-> EmptyObject]
    /\ credential = Str("sk-key")
    /\ calls = [p \in Invocations |-> IdleCall]
    /\ served = 0
    /\ probe = NoProbe
    /\ feed = NoFeed
    /\ ad \in { [pc |-> "called", content |-> content, messages |-> messages,
                  affiliatesData |-> data, combinedContent |-> <<>>,
                  response |-> Undefined, failed |-> FALSE,
                  outcome |-> "pending", result |-> Undefined] :
                    content \in AdContents, messages \in AdMessages,
                    data \in AffiliateLists }

AdNext ==
    \/ FindRelevantAffiliateStart
    \/ CompletionResolve
    \/ CompletionFail

AdSpec == AdInit /\ [][AdNext]_vars

(***************************************************************************)
(* Properties.                                                             *)
(***************************************************************************)
StreamRequested(c) == Truthy(Get(c.normalizedOptions, "stream"))

ResponseReceived(c) == c.response.status # ""

Finished(c) == c.pc = "done"

\* C1: when streaming is requested and the upstream status is non-2xx the
\* call throws; with streaming disabled it returns a value whose error field
\* is populated.  (Stated as claimed; the code returns in both cases.)
C1_StreamingErrorThrows ==
    \A p \in DOMAIN calls :
        LET c == calls[p]
        IN  (Finished(c) /\ ResponseReceived(c) /\ ~c.response.ok) =>
                IF StreamRequested(c)
                THEN c.outcome = "thrown"
                ELSE c.outcome = "returned" /\ IsErrorResponse(c.result)

\* The error responses a non-streaming non-2xx call can end with: the one
\* built from the status and the text read, or the one the catch clause
\* builds when reading the text fails.
UpstreamErrorResponses(c) ==
    { createErrorResponse(ErrorValue(m), config.providerName) :
        m \in { ApiErrorMessage(config.providerName, c.response) \o " - "
                    \o c.response.text,
                "body read failed" } }

\* C2: on a non-streaming call with a non-2xx status the client reads the
\* error text and returns, never throws, the Uniform Error Response built by
\* createErrorResponse for providerName; it never parses the body as JSON
\* and never runs formatResponse or the default backfill.
C2_NonStreamingErrorReturned ==
    \A p \in DOMAIN calls :
        LET c == calls[p]
        IN  (ResponseReceived(c) /\ ~c.response.ok /\ ~StreamRequested(c)) =>
                /\ "json" \notin c.reads
                /\ ~c.formatCalled
                /\ ~c.backfilled
                /\ c.outcome # "thrown"
                /\ Finished(c) =>
                    /\ c.outcome = "returned"
                    /\ "text" \in c.reads
                    /\ c.result \in UpstreamErrorResponses(c)

C2_Witness ==
    \E p \in DOMAIN calls :
        /\ Finished(calls[p])
        /\ calls[p].response.status = "500"
        /\ ~StreamRequested(calls[p])
        /\ calls[p].reads = {"text"}
        /\ calls[p].outcome = "returned"

\* A JSON parse failure or a formatResponse failure happened in call c.
ParseOrFormatFailed(c) ==
    /\ "json" \in c.reads
    /\ \/ c.response.json = InvalidJson
       \/ config.formatResponse = "throws"

\* C3: every exception raised during request construction (whatever the
\* stream option) or during non-streaming parsing and formatting ends the
\* call with a returned Uniform Error Response; the call does not throw.
C3_LocalFailuresReturned ==
    \A p \in DOMAIN calls :
        LET c == calls[p]
        IN  (Finished(c) /\ (~c.constructed \/ ParseOrFormatFailed(c))) =>
                /\ c.outcome = "returned"
                /\ IsErrorResponse(c.result)
                /\ Get(Get(c.result, "error"), "providerName")
                        = Str(config.providerName)

C3_Witness ==
    \E p \in DOMAIN calls :
        /\ Finished(calls[p])
        /\ ~calls[p].constructed
        /\ calls[p].transformCalled
        /\ StreamRequested(calls[p])
        /\ IsErrorResponse(calls[p].result)

\* C4: a call that starts while the credential accessor returns an empty
\* value ends with the configuration error "<providerName> API key is not
\* set" and issues no HTTP request, on every call.
C4_MissingCredentialNoRequest ==
    \A p \in DOMAIN calls :
        LET c == calls[p]
        IN  (c.pc # "idle" /\ ~Truthy(c.credAtCheck)) =>
                /\ Finished(c)
                /\ c.posts = <<>>
                /\ c.outcome = "returned"
                /\ c.result =
                     createErrorResponse(
                        ErrorValue(config.providerName \o " API key is not set"),
                        config.providerName)

\* The failing call follows a successful call with the same messages and
\* options.
C4_Witness ==
    \E p \in DOMAIN calls :
        /\ Finished(calls[p])
        /\ ~Truthy(calls[p].credAtCheck)
        /\ calls[p].repeatOfSuccess
        /\ calls[p].posts = <<>>

\* Request construction succeeds for the inputs of call c: the messages are
\* valid and the transformRequest hook does not throw.
ConstructionSucceeds(c) ==
    /\ c.messages.t = "array"
    /\ Len(c.messages.v) > 0
    /\ \A i \in 1..Len(c.messages.v) : IsChatMessage(c.messages.v[i])
    /\ config.transformRequest # "throws"

\* C5: an invocation issues at most one HTTP POST: exactly one when the
\* credential is present and request construction succeeds, none otherwise,
\* whatever the outcome of the POST.
C5_AtMostOnePost ==
    \A p \in DOMAIN calls :
        LET c == calls[p]
        IN  /\ Len(c.posts) <= 1
            /\ \A i \in 1..Len(c.posts) : c.posts[i].method = "POST"
            /\ c.pc # "idle" =>
                (Len(c.posts) = 1 <=>
                    Truthy(c.credAtCheck) /\ ConstructionSucceeds(c))

C5_Witness ==
    \E p \in DOMAIN calls :
        /\ Finished(calls[p])
        /\ calls[p].response.status = "500"
        /\ Len(calls[p].posts) = 1

\* The messages array of the request call c transmitted.
SentMessages(c) == Get(c.posts[1].body, "messages").v

SystemCount(msgs) ==
    Cardinality({i \in 1..Len(msgs) : Get(msgs[i], "role") = Str("system")})

LeadsWithSystem(msgs) == Len(msgs) > 0 /\ Get(msgs[1], "role") = Str("system")

\* The prompt the claim names: systemPrompts[modelKey], or the first
\* configured prompt when the key is absent.
ClaimedPrompt(c) ==
    LET k == Get(c.normalizedOptions, "model")
        hits == {i \in 1..Len(systemPrompts) :
                    k.t = "string" /\ systemPrompts[i].key = k.v}
    IN  IF hits # {}
        THEN Str(systemPrompts[CHOOSE i \in hits : TRUE].value)
        ELSE Str(systemPrompts[1].value)

\* The messages the claim expects for call c.
ClaimedMessages(c) ==
    IF HasSystemMessage(c.messages)
    THEN c.messages.v
    ELSE <<Msg("system", ClaimedPrompt(c))>> \o c.messages.v

HasNullishDirectKey(x) ==
    x.t = "object" /\ \E k \in DOMAIN x.v : IsNullish(x.v[k])

\* Some key of x, at any depth of nested objects, has a null or undefined value.
RECURSIVE HasNullishKey(_)
HasNullishKey(x) ==
    /\ x.t = "object"
    /\ \E k \in DOMAIN x.v : IsNullish(x.v[k]) \/ HasNullishKey(x.v[k])

\* Some key of x, at any depth of nested objects, has the value undefined.
RECURSIVE HasUndefinedKey(_)
HasUndefinedKey(x) ==
    /\ x.t = "object"
    /\ \E k \in DOMAIN x.v : x.v[k].t = "undefined" \/ HasUndefinedKey(x.v[k])

ReducesToEmpty(rf) ==
    rf.t = "object" /\ \A k \in Keys(rf) : rf.v[k].t = "null"

\* C9: when response_format is empty once the provider-specific secondary
\* pass has stripped its nulls, the transmitted body has no response_format
\* key.
C9_EmptyResponseFormatRemoved ==
    \A p \in DOMAIN calls :
        LET c == calls[p]
        IN  ( /\ Len(c.posts) = 1
              /\ config.providerName = "Cloudflare"
              /\ ReducesToEmpty(Get(c.transformedRequestBody,
                                    "response_format")) ) =>
                /\ "response_format" \notin Keys(c.finalRequestBody)
                /\ "response_format" \notin Keys(c.posts[1].body)

C9_Witness ==
    \E p \in DOMAIN calls :
        /\ Len(calls[p].posts) = 1
        /\ config.providerName = "Cloudflare"
        /\ Get(calls[p].transformedRequestBody, "response_format")
                = Obj([type |-> Null])
        /\ "response_format" \notin Keys(calls[p].posts[1].body)

JsonModeSet(c) == Truthy(Get(c.normalizedOptions, "jsonMode"))

\* C10 as claimed: the transmitted body has a response_format key only when
\* the normalized option jsonMode is set.
C10_ResponseFormatOnlyWithJsonMode ==
    \A p \in DOMAIN calls :
        \A i \in 1..Len(calls[p].posts) :
            "response_format" \in Keys(calls[p].posts[i].body) =>
                JsonModeSet(calls[p])

HookWritesResponseFormat ==
    config.transformRequest \in {"rfNullType", "rfEmpty", "rfDeepNull"}

\* C10 amended: unless the configured transformRequest hook itself writes
\* response_format, the transmitted body has a response_format key only
\* when the normalized option jsonMode is set.
C10_ResponseFormatFollowsJsonMode ==
    \A p \in DOMAIN calls :
        \A i \in 1..Len(calls[p].posts) :
            ~HookWritesResponseFormat =>
                ("response_format" \in Keys(calls[p].posts[i].body) =>
                    JsonModeSet(calls[p]))

C10_Witness ==
    \E p \in DOMAIN calls :
        /\ Len(calls[p].posts) = 1
        /\ config.transformRequest = "none"
        /\ JsonModeSet(calls[p])
        /\ Get(calls[p].posts[1].body, "response_format")
                = Obj([type |-> Str("json_object")])

(***************************************************************************)
(* C11: the model name sent upstream and given to the endpoint function.   *)
(***************************************************************************)
\* The model key the caller asked for, after the defaults are merged in.
RequestedModelKey(c) == Get(c.normalizedOptions, "model")

\* The provider model name the mapping table assigns to key, read off the
\* table entry by entry.
MappedModelName(key) ==
    IF key.t = "string" /\ key.v \in {modelMapping[i].key :
                                        i \in 1..Len(modelMapping)}
    THEN LET i == CHOOSE j \in 1..Len(modelMapping) :
                    modelMapping[j].key = key.v
         IN  Str(modelMapping[i].value)
    ELSE Str(modelMapping[1].value)

DefaultFormatted(c) ==
    /\ Finished(c)
    /\ ~StreamRequested(c)
    /\ c.response.ok
    /\ "json" \in c.reads
    /\ c.response.json # InvalidJson
    /\ config.formatResponse = "none"

BackfilledFields == {"id", "object", "usage"}

\* The value the client writes into field f when it fills it in.
BackfillValue(c, f) ==
    CASE f = "id" ->
            Str(ToLowerCase(config.providerName) \o "-" \o c.requestId)
      [] f = "object" -> Str("chat.completion")
      [] f = "usage" ->
            Obj([prompt_tokens |-> Num("0"),
                 completion_tokens |-> Num("0"),
                 total_tokens |-> Num("0")])

\* C12 as stated: id, object and usage are filled in when the payload has no
\* such field; every field the payload does have is returned unchanged.
C12_BackfillOnlyMissingFields ==
    \A p \in DOMAIN calls :
        LET c == calls[p]
            data == c.response.json
        IN  DefaultFormatted(c) =>
                /\ c.outcome = "returned"
                /\ Keys(c.result) = Keys(data) \cup BackfilledFields
                /\ \A k \in Keys(c.result) :
                        Get(c.result, k) =
                            IF k \in Keys(data)
                            THEN Get(data, k)
                            ELSE BackfillValue(c, k)

\* C12, amended: id, object and usage are filled in when the payload's field
\* is missing or falsy (null, "", 0, false); a truthy id, object or usage and
\* every other field of the payload are returned unchanged.
C12_BackfillMissingOrFalsyFields ==
    \A p \in DOMAIN calls :
        LET c == calls[p]
            data == c.response.json
        IN  DefaultFormatted(c) =>
                /\ c.outcome = "returned"
                /\ Keys(c.result) = Keys(data) \cup BackfilledFields
                /\ \A k \in Keys(c.result) :
                        Get(c.result, k) =
                            IF k \in BackfilledFields /\ ~Truthy(Get(data, k))
                            THEN BackfillValue(c, k)
                            ELSE Get(data, k)

\* A payload with nothing but choices came back with the three fields filled
\* in, by the second invocation of a client.
C12_Witness ==
    \E p \in DOMAIN calls :
        LET c == calls[p]
        IN  /\ DefaultFormatted(c)
            /\ c.response.json = DataBare
            /\ Get(c.result, "id")
                    = Str(ToLowerCase(config.providerName) \o "-req2")
            /\ Get(c.result, "object") = Str("chat.completion")
            /\ Get(Get(c.result, "usage"), "total_tokens") = Num("0")
            /\ Get(c.result, "choices") = Opaque("choices")

(***************************************************************************)
(* C13: a configured formatResponse replaces the default formatting.       *)
(***************************************************************************)
\* The parsed payload of a 2xx non-streaming response is at hand and a
\* formatResponse that returns a value is configured.
FormatterApplies(c) ==
    /\ Finished(c)
    /\ ~StreamRequested(c)
    /\ c.response.ok
    /\ "json" \in c.reads
    /\ c.response.json # InvalidJson
    /\ config.formatResponse = "custom"

\* C13: with formatResponse configured, a successful non-streaming call
\* returns exactly formatResponse(data, requestId, startTime, modelName) and no
\* default field is filled in; formatResponse is not invoked by a streaming
\* call nor on a non-2xx response.
C13_FormatResponseReplacesDefault ==
    \A p \in DOMAIN calls :
        LET c == calls[p]
        IN  /\ FormatterApplies(c) =>
                /\ c.outcome = "returned"
                /\ c.formatCalled
                /\ c.result = FormatResponse("custom", c.response.json,
                                             c.requestId, c.modelName).value
                /\ Keys(c.result) \cap {"id", "object", "usage"} = {}
                /\ ~c.backfilled
            /\ c.formatCalled =>
                /\ ~StreamRequested(c)
                /\ c.response.ok
                /\ config.formatResponse # "none"
            /\ (StreamRequested(c) \/ ~c.response.ok) => ~c.formatCalled

\* A payload that lacks id, object and usage went through formatResponse and
\* came back as the formatter built it.
C13_Witness ==
    \E p \in DOMAIN calls :
        LET c == calls[p]
        IN  /\ FormatterApplies(c)
            /\ c.response.json = DataBare
            /\ c.formatCalled
            /\ Get(c.result, "formattedBy") = Str("formatResponse")
            /\ Get(c.result, "model") = Str("mistral-large")
            /\ served = 2

(***************************************************************************)
(* C14: the streaming envelope of a 2xx response.                          *)
(***************************************************************************)
\* A streaming call whose request was answered with a 2xx response.
StreamedOk(c) ==
    /\ Finished(c)
    /\ StreamRequested(c)
    /\ ResponseReceived(c)
    /\ c.response.ok

\* C14: a streaming call answered 2xx returns an envelope whose responseStream
\* is the body handle of that response, with stream = true, object =
\* 'chat.completion.chunk', id = '<providerName lowercased>-<requestId>' and
\* model = the resolved model name, and has read nothing of the body.
C14_StreamingEnvelopeHandsOverBody ==
    \A p \in DOMAIN calls :
        LET c == calls[p]
        IN  StreamedOk(c) =>
                /\ c.outcome = "returned"
                /\ Get(c.result, "responseStream") = c.response.body
                /\ Get(c.result, "stream") = Bool(TRUE)
                /\ Get(c.result, "object") = Str("chat.completion.chunk")
                /\ Get(c.result, "id")
                     = Str(ToLowerCase(config.providerName) \o "-"
                            \o c.requestId)
                /\ Get(c.result, "model")
                     = MappedModelName(RequestedModelKey(c))
                /\ c.reads = {}

\* The second invocation of a client streamed an event-stream response.
C14_Witness ==
    \E p \in DOMAIN calls :
        LET c == calls[p]
        IN  /\ StreamedOk(c)
            /\ c.response.contentType = Str("text/event-stream")
            /\ Get(c.result, "responseStream") = c.response.body
            /\ c.response.body.t = "opaque"
            /\ c.requestId = "req2"
            /\ c.reads = {}

(***************************************************************************)
(* C15: the headers of a dispatched request.                               *)
(***************************************************************************)
Dispatched(c) == Len(c.posts) >= 1

\* The names of the two headers the client writes itself.
OwnHeaderNames == {authHeaderName, "Content-Type"}

\* C15 as stated: every dispatched request carries the auth header with the
\* credential the accessor returned, Content-Type: application/json and every
\* entry of additionalHeaders, whatever additionalHeaders holds.
C15_OwnAndAdditionalHeadersSent ==
    \A p \in DOMAIN calls :
        LET c == calls[p]
        IN  Dispatched(c) =>
                LET h == c.posts[1].headers
                IN  /\ Get(h, authHeaderName) = c.credAtHeaders
                    /\ Get(h, "Content-Type") = Str("application/json")
                    /\ \A k \in Keys(config.additionalHeaders) :
                            Get(h, k) = Get(config.additionalHeaders, k)

\* C15, amended: every dispatched request carries every entry of
\* additionalHeaders and nothing but those and the two own headers; the auth
\* header carries the credential the accessor returned and Content-Type is
\* application/json unless additionalHeaders has an entry of that name, which
\* is then the value sent.
C15_AdditionalHeadersOverrideOwn ==
    \A p \in DOMAIN calls :
        LET c == calls[p]
        IN  Dispatched(c) =>
                LET h == c.posts[1].headers
                    extra == config.additionalHeaders
                IN  /\ Keys(h) = OwnHeaderNames \cup Keys(extra)
                    /\ \A k \in Keys(extra) : Get(h, k) = Get(extra, k)
                    /\ authHeaderName \notin Keys(extra) =>
                            Get(h, authHeaderName) = c.credAtHeaders
                    /\ "Content-Type" \notin Keys(extra) =>
                            Get(h, "Content-Type") = Str("application/json")

\* A request left with the credential, the JSON content type and the extra
\* header of the configuration, in the second invocation of a client.
C15_Witness ==
    \E p \in DOMAIN calls :
        LET c == calls[p]
        IN  /\ Dispatched(c)
            /\ config.additionalHeaders = additionalHeaders
            /\ c.credAtHeaders = Str("sk-key")
            /\ c.posts[1].headers =
                    Obj([k \in {"Authorization", "Content-Type", "X-Client"} |->
                            CASE k = "Authorization" -> Str("sk-key")
                              [] k = "Content-Type" -> Str("application/json")
                              [] k = "X-Client" -> Str("pollinations")])
            /\ c.requestId = "req2"

(***************************************************************************)
(* C16: a messages argument that is not an array.                          *)
(***************************************************************************)
NotAnArray(c) == c.pc = "done" /\ c.messages.t # "array"

\* The failure messages of the model that contain 'Invalid messages'.
ContainsInvalidMessages(m) == m \in {"Invalid messages"}

\* The call reported a failure whose message contains 'Invalid messages'.
ReportsInvalidMessages(c) ==
    /\ IsErrorResponse(c.result) \/ c.outcome = "thrown"
    /\ LET m == IF c.outcome = "thrown"
                THEN c.result
                ELSE Get(Get(c.result, "error"), "message")
       IN  m.t \in {"string", "error"} /\ ContainsInvalidMessages(m.v)

\* C16 as stated: a call whose messages argument is not an array reports a
\* failure whose message contains 'Invalid messages' and issues no request.
C16_NonArrayReportsInvalidMessages ==
    \A p \in DOMAIN calls :
        LET c == calls[p]
        IN  NotAnArray(c) =>
                /\ ReportsInvalidMessages(c)
                /\ c.posts = <<>>

\* C16, amended: a call whose messages argument is not an array issues no
\* request; when the credential is present it reports a failure whose message
\* contains 'Invalid messages', and when the credential is missing it reports
\* the missing API key instead, the credential being checked first.
C16_NonArrayFailsWithoutRequest ==
    \A p \in DOMAIN calls :
        LET c == calls[p]
        IN  NotAnArray(c) =>
                /\ c.posts = <<>>
                /\ ~c.transformCalled
                /\ c.outcome = "returned"
                /\ IsErrorResponse(c.result)
                /\ Truthy(c.credAtCheck) => ReportsInvalidMessages(c)
                /\ ~Truthy(c.credAtCheck) =>
                        Get(Get(c.result, "error"), "message")
                            = Str(config.providerName \o " API key is not set")

\* The string 'not-an-array' was passed with the credential present, by the
\* second invocation of a client, and came back as 'Invalid messages'.
C16_Witness ==
    \E p \in DOMAIN calls :
        LET c == calls[p]
        IN  /\ NotAnArray(c)
            /\ c.messages = Str("not-an-array")
            /\ Truthy(c.credAtCheck)
            /\ Get(Get(c.result, "error"), "message") = Str("Invalid messages")
            /\ c.posts = <<>>
            /\ c.requestId = "req2"

(***************************************************************************)
(* C17: a failure of the transport.                                        *)
(***************************************************************************)
\* The request was sent and the call ended without any response.
TransportFailed(c) ==
    /\ Finished(c)
    /\ Len(c.posts) = 1
    /\ ~ResponseReceived(c)

\* C17: when fetch itself rejects, the call returns the error response of the
\* provider, carrying the transport's message, and does not throw, whether
\* the caller asked for a stream or not.
C17_TransportFailureReturned ==
    \A p \in DOMAIN calls :
        LET c == calls[p]
        IN  TransportFailed(c) =>
                /\ c.outcome = "returned"
                /\ c.result = createErrorResponse(ErrorValue("fetch failed"),
                                                  config.providerName)
                /\ IsErrorResponse(c.result)
                /\ c.reads = {}

\* The second invocation of a client, a streaming one, lost its connection.
C17_Witness ==
    \E p \in DOMAIN calls :
        LET c == calls[p]
        IN  /\ TransportFailed(c)
            /\ StreamRequested(c)
            /\ c.outcome = "returned"
            /\ Get(Get(c.result, "error"), "message") = Str("fetch failed")
            /\ c.requestId = "req2"

(***************************************************************************)
(* C18: concurrent invocations of one client.                              *)
(***************************************************************************)
\* The number under which the invocation was started.
RequestNumber(c) ==
    CHOOSE n \in 1..(MaxCalls + 1) : generateRequestId(n) = c.requestId

\* The invocation as it stands right after its first segment when it is the
\* only invocation of the client: same arguments, same credential reads.
SoloStart(c) ==
    InvokeCall(config, IdleCall, RequestNumber(c), c.credAtCheck,
               c.credAtHeaders, c.messages, c.options)

\* What the invocation can be after the fetch has settled, run alone.
SoloAfterFetch(s) ==
    IF s.pc # "fetching"
    THEN {}
    ELSE {AfterFetch(config, s, r) : r \in Responses}
            \cup {OuterCatch(config.providerName, s, ErrorValue("fetch failed"))}

\* What the invocation can be after the body has been read, run alone.
SoloAfterRead(s) ==
    LET s1 == [s EXCEPT !.reads = @ \cup {"text"}]
        apiError == ErrorValue(ApiErrorMessage(config.providerName, s.response))
        readError == ErrorValue("body read failed")
    IN  CASE s.pc = "streamErrorText" ->
                {OuterCatch(config.providerName, s1, e) :
                    e \in {apiError, readError}}
          [] s.pc = "errorText" ->
                {ErrorResponseReturn(config.providerName, s1),
                 OuterCatch(config.providerName, s1, readError)}
          [] s.pc = "parsing" -> {AfterJson(config, s)}
          [] OTHER -> {}

\* Every state the invocation goes through when it runs alone.
SoloStates(c) ==
    LET s0 == SoloStart(c)
        fetched == SoloAfterFetch(s0)
    IN  {s0} \cup fetched \cup UNION {SoloAfterRead(s) : s \in fetched}

FailedBeforeBuild(c) ==
    /\ c.pc # "idle"
    /\ \/ ~Truthy(c.credAtCheck)
       \/ validateAndNormalizeMessages(c.messages).threw

\* C19: transformRequest is given the body the generic sanitization produced
\* (no null or undefined key in it); the provider-specific pass is applied to
\* what transformRequest returned; the body dispatched is the outcome of that
\* last step; and transformRequest is not invoked by a call whose credential
\* check or message validation failed.
C19_BuildStepsInOrder ==
    \A p \in DOMAIN calls :
        LET c == calls[p]
        IN  /\ c.transformCalled =>
                /\ c.transformInput.t = "object"
                /\ ~HasNullishKey(c.transformInput)
                /\ c.transformInput = c.cleanedRequestBody
            /\ Dispatched(c) =>
                /\ ~HasNullishKey(c.cleanedRequestBody)
                /\ c.transformedRequestBody
                        = TransformRequest(config.transformRequest,
                                           c.cleanedRequestBody).value
                /\ c.finalRequestBody
                        = SecondaryPass(config.providerName,
                                        c.transformedRequestBody)
                /\ c.posts[1].body = JSONStringify(c.finalRequestBody)
            /\ FailedBeforeBuild(c) =>
                /\ ~c.transformCalled
                /\ c.posts = <<>>

\* On the null-intolerant provider a hook nulled the type of response_format:
\* the sanitized body, the hook's result and the body sent all differ, and
\* the body sent has lost response_format.
C19_Witness ==
    \E p \in DOMAIN calls :
        LET c == calls[p]
        IN  /\ Dispatched(c)
            /\ config.providerName = "Cloudflare"
            /\ config.transformRequest = "rfNullType"
            /\ c.transformCalled
            /\ Get(c.transformInput, "response_format")
                    = Obj([type |-> Str("json_object")])
            /\ Get(c.transformedRequestBody, "response_format")
                    = Obj([type |-> Null])
            /\ "response_format" \notin Keys(c.finalRequestBody)
            /\ "response_format" \notin Keys(c.posts[1].body)
            /\ c.requestId = "req2"

(***************************************************************************)
(* C20: the isSSE field of the streaming envelope.                         *)
(***************************************************************************)
\* The content-type values of the model that contain 'text/event-stream'.
IsEventStream(contentType) ==
    /\ contentType.t = "string"
    /\ contentType.v \in {"text/event-stream",
                          "text/event-stream; charset=utf-8"}

\* C20: in every streaming envelope returned, isSSE is a boolean: true when
\* the response's content-type contains 'text/event-stream', false otherwise,
\* also when the response has no content-type header.
C20_IsSSEBoolean ==
    \A p \in DOMAIN calls :
        LET c == calls[p]
        IN  (StreamedOk(c) /\ c.outcome = "returned") =>
                Get(c.result, "isSSE")
                    = Bool(IsEventStream(c.response.contentType))

(***************************************************************************)
(* C21: the error field of the streaming envelope.                         *)
(***************************************************************************)
\* The call resolved with a streaming envelope.
ReturnedEnvelope(c) ==
    /\ Finished(c)
    /\ c.outcome = "returned"
    /\ Get(c.result, "object") = Str("chat.completion.chunk")

\* C21: every streaming envelope the client returns has its error field
\* undefined and belongs to a 2xx response; a streaming call answered non-2xx
\* ends without an envelope.
C21_EnvelopeHasNoError ==
    \A p \in DOMAIN calls :
        LET c == calls[p]
        IN  /\ ReturnedEnvelope(c) =>
                /\ Get(c.result, "error") = Undefined
                /\ c.response.ok
            /\ (Finished(c) /\ StreamRequested(c) /\ ResponseReceived(c)
                    /\ ~c.response.ok) =>
                ~ReturnedEnvelope(c)

\* The second invocation of a client streamed a 2xx response and returned an
\* envelope whose error key holds undefined.
C21_Witness ==
    \E p \in DOMAIN calls :
        LET c == calls[p]
        IN  /\ ReturnedEnvelope(c)
            /\ "error" \in Keys(c.result)
            /\ Get(c.result, "error") = Undefined
            /\ Get(c.result, "stream") = Bool(TRUE)
            /\ c.response.status = "200"
            /\ c.requestId = "req2"

(***************************************************************************)
(* C22: the credential in the auth header of a dispatched request.         *)
(***************************************************************************)
\* C22: no request is dispatched whose auth header holds an empty or falsy
\* credential, whatever the accessor returns on its two reads in one call.
C22_NoEmptyCredentialSent ==
    \A p \in DOMAIN calls :
        LET c == calls[p]
        IN  Dispatched(c) =>
                /\ authHeaderName \in Keys(c.posts[1].headers)
                /\ Truthy(Get(c.posts[1].headers, authHeaderName))

(***************************************************************************)
(* C23: the response branch and the stream field of the request sent.      *)
(***************************************************************************)
\* The body that was sent asks the provider for a stream.
StreamSent(c) == Get(c.posts[1].body, "stream") = Bool(TRUE)

\* The call has handled a 2xx response to its end.
HandledOk(c) ==
    /\ Finished(c)
    /\ Dispatched(c)
    /\ ResponseReceived(c)
    /\ c.response.ok

\* C23 as stated: the client returns a streaming envelope exactly when the
\* stream field of the body sent is true, and parses a JSON body exactly when
\* it is not, for every transformRequest hook.
C23_BranchFollowsBodySent ==
    \A p \in DOMAIN calls :
        LET c == calls[p]
        IN  HandledOk(c) =>
                /\ ReturnedEnvelope(c) <=> StreamSent(c)
                /\ ("json" \in c.reads) <=> ~StreamSent(c)

\* C23, amended: the client returns a streaming envelope exactly when the
\* normalized options ask for a stream, and parses a JSON body exactly when
\* they do not; this agrees with the stream field of the body sent whenever
\* transformRequest leaves that field as it received it.
C23_BranchFollowsNormalizedOptions ==
    \A p \in DOMAIN calls :
        LET c == calls[p]
        IN  HandledOk(c) =>
                /\ ReturnedEnvelope(c) <=> StreamRequested(c)
                /\ ("json" \in c.reads) <=> ~StreamRequested(c)
                /\ Get(c.transformedRequestBody, "stream")
                        = Get(c.cleanedRequestBody, "stream")
                    => (StreamSent(c) <=> StreamRequested(c))

\* A hook removed the stream field the caller had set: the provider was not
\* asked for a stream, answered 200, and the client returned an envelope.
C23_Witness ==
    \E p \in DOMAIN calls :
        LET c == calls[p]
        IN  /\ HandledOk(c)
            /\ config.transformRequest = "dropStream"
            /\ Get(c.cleanedRequestBody, "stream") = Bool(TRUE)
            /\ "stream" \notin Keys(c.posts[1].body)
            /\ ReturnedEnvelope(c)
            /\ c.reads = {}

(***************************************************************************)
(* C24: the EventSources of one run of the feed effect.                    *)
(***************************************************************************)
\* At every moment at most one EventSource created by the effect is open.
FeedAtMostOneOpen == Cardinality(feed.open) <= 1

\* Once the cleanup has run no EventSource created by the effect is open.
FeedClosedAfterCleanup == feed.cleanedUp => feed.open = {}

\* C24: once the cleanup of the effect has run, no EventSource the effect
\* created is open and none is opened afterwards, however the cleanup
\* interleaves with an error handler waiting out its delay; and at every
\* moment at most one EventSource created by the effect is open.
C24_NoEventSourceAfterCleanup ==
    /\ FeedClosedAfterCleanup
    /\ FeedAtMostOneOpen

(***************************************************************************)
(* C25: the NSFW filter of findRelevantAffiliate.                          *)
(***************************************************************************)
\* The combined content holds one of 'nsfw', 'adult', 'sex', in any case.
MentionsNsfwKeyword(lines) ==
    \E i \in 1..Len(lines), keyword \in {"nsfw", "adult", "sex"} :
        WordIncludes(LowerCaseWord(lines[i]), keyword)

\* x is one of the elements of the affiliate list.
IsListedAffiliate(x) ==
    \E i \in 1..Len(ad.affiliatesData) : ad.affiliatesData[i] = x

\* C25: when the combined content holds none of the keywords, the call does
\* not return an affiliate whose nsfw flag is set, whatever the LLM answers;
\* on every path it returns null or an element of affiliatesData, and does
\* not throw.
C25_NoNsfwAffiliateWithoutKeyword ==
    ad.pc = "done" =>
        /\ ad.outcome = "returned"
        /\ ad.result = Null \/ IsListedAffiliate(ad.result)
        /\ ~MentionsNsfwKeyword(ad.combinedContent) =>
                ~Truthy(Get(ad.result, "nsfw"))

====
